---- MODULE Spec2Model ----
(***************************************************************************)
(* Model of the IB CM (SIDR) active-message endpoint, src/uct/ib/cm/cm_ep.c *)
(*                                                                         *)
(* One interface (uct_cm_iface_t) is shared by the endpoints in Endpoints. *)
(* User threads call uct_cm_ep_am_bcopy, uct_cm_ep_pending_add,            *)
(* uct_cm_ep_pending_purge, uct_cm_ep_flush and destroy endpoints; the     *)
(* asynchronous context                                                    *)
(* delivers the completion of outstanding SIDR requests.  Every process    *)
(* has a position (pc) inside the function it executes.                    *)
(***************************************************************************)
EXTENDS Integers, Sequences, FiniteSets, TLC

(* ------------------------------ bounds -------------------------------- *)
\* number of SIDR requests that may be submitted in one behaviour: once
\* they are used up, ib_cm_create_id() fails
MaxHandles == 3
\* number of pending requests that may be pushed in one behaviour
MaxReqs == 2

(* ------------------------- program constants -------------------------- *)
\* iface->config.max_outstanding
max_outstanding == 2
\* IB_CM_SIDR_REQ_PRIVATE_DATA_SIZE, the size of the staging buffer
IB_CM_SIDR_REQ_PRIVATE_DATA_SIZE == 216
\* sizeof(*hdr): am_id and length, one byte each
sizeof_hdr == 2

Threads   == {"t1", "t2"}
Async     == "async"
Procs     == Threads \cup {Async}
Endpoints == {"epA", "epB"}
\* an endpoint is used by the thread that created it
EpOf(t)   == IF t = "t1" THEN "epA" ELSE "epB"
NoOwner   == "none"
NULL      == 0

\* payload lengths the pack callback may return: one that fits the staging
\* buffer and one that is a byte more than fits
PayloadLens == {32, IB_CM_SIDR_REQ_PRIVATE_DATA_SIZE - sizeof_hdr + 1}
AmIds == {3}

Handles == 1..MaxHandles
Slots   == 0..(max_outstanding - 1)

VARIABLES
    pc,              \* position of every process
    lock,            \* owner of the interface lock (uct_cm_enter/leave)
    num_outstanding, \* iface->num_outstanding
    outstanding,     \* iface->outstanding[]
    notify_q,        \* iface->notify_q, entries [req, ep]
    alive,           \* endpoints constructed and not yet destroyed
    cm_id,           \* state of every native transaction handle
    next_id,         \* next handle ib_cm_create_id() returns
    next_req,        \* next pending request a caller allocates
    call,            \* arguments and locals of the call in progress
    hdr,             \* does the process hold a staging buffer
    last,            \* what the call that just finished did and returned
    last_handed,     \* the last request handed back for retry
    path,            \* calls of uct_cm_ep_fill_path_rec: inputs and results
    stats_flags,     \* ucs_stats_context.flags, the set of flags that are on
    stats_lock,      \* owner of ucs_stats_context.lock
    stats_pc,        \* position of every process that uses the statistics
    stats_cfg,       \* ucs_global_opts.stats_dest and .stats_trigger
    stats_tflags,    \* the local variable flags of ucs_stats_thread_func
    stats_node,      \* the statistics nodes: which list, under which parent
    stats_arg,       \* the node of the node call in progress
    stats_calls      \* calls of ucs_stats_init and ucs_stats_dump so far

cm_vars == <<pc, lock, num_outstanding, outstanding, notify_q, alive, cm_id,
             next_id, next_req, call, hdr, last, last_handed>>
stats_vars == <<stats_flags, stats_lock, stats_pc, stats_cfg, stats_tflags,
                stats_node, stats_arg, stats_calls>>
vars == <<cm_vars, path, stats_vars>>

NoCall == [op |-> "none", ep |-> "none", am_id |-> 0, id |-> NULL,
           snap |-> <<>>]
\* op and status: the call and its outcome; value: the value returned;
\* packed: was the pack callback invoked; id, private_data_len: the handle
\* and the length given to ib_cm_send_sidr_req()
NoLast == [op |-> "none", status |-> "none", value |-> 0, packed |-> FALSE,
           id |-> NULL, private_data_len |-> 0]

\* no call of uct_cm_ep_fill_path_rec is followed
NoPath == [ep |-> "none", iface |-> "none", out |-> <<>>]

CmInit ==
    /\ pc = [p \in Procs |-> "idle"]
    /\ lock = NoOwner
    /\ num_outstanding = 0
    /\ outstanding = [i \in Slots |-> NULL]
    /\ notify_q = <<>>
    /\ alive = Endpoints
    /\ cm_id = [h \in Handles |-> "unused"]
    /\ next_id = 1
    /\ next_req = 1
    /\ call = [p \in Procs |-> NoCall]
    /\ hdr = [p \in Procs |-> FALSE]
    /\ last = NoLast
    /\ last_handed = 0

(* the statistics before ucs_stats_init: lines 63-68 *)
StatsMain   == "main"
StatsUser   == "user"
StatsThread == "stats_thread"
StatsProcs  == {StatsMain, StatsUser, StatsThread}
StatsNodes  == {"n1", "n2"}
StatsRoot   == "root"
NoCfg  == [dest |-> "none", trigger |-> "none"]
NoNode == [st |-> "none", parent |-> "none"]
NoArg  == [node |-> "none", parent |-> "none", make_inactive |-> FALSE]

StatsOff ==
    /\ stats_flags = {}
    /\ stats_lock = NoOwner
    /\ stats_pc = [p \in StatsProcs |->
                      IF p = StatsThread THEN "none" ELSE "idle"]
    /\ stats_cfg = NoCfg
    /\ stats_tflags = {}
    /\ stats_node = [n \in StatsNodes |-> NoNode]
    /\ stats_arg = NoArg
    /\ stats_calls = [init |-> 0, dump |-> 0]

Init == CmInit /\ path = NoPath /\ StatsOff

(* ------------------------- the interface lock ------------------------- *)
\* uct_cm_enter(iface): taken only when no one holds it
uct_cm_enter(p) == lock = NoOwner /\ lock' = p
\* uct_cm_leave(iface)
uct_cm_leave(p) == lock' = NoOwner

(* ------------------------- uct_cm_ep_am_bcopy ------------------------- *)
\* variants of the admission test: off by one, and absent
NoResource_gt(num) == num > max_outstanding
NoResource_never(num) == FALSE

\* line 114: the admission test
NoResource(num) == num >= max_outstanding

\* line 129: total_len = sizeof(*hdr) + payload_len
TotalLen(payload_len) == sizeof_hdr + payload_len

\* variants of the store: the counter is not advanced; the handle is put
\* in the slot after the first free one
StoreOutstanding_noinc(tab, num, id) ==
    [tab |-> [i \in DOMAIN tab |-> IF i = num THEN id ELSE tab[i]],
     num |-> num]
StoreOutstanding_preinc(tab, num, id) ==
    [tab |-> [i \in DOMAIN tab |-> IF i = num + 1 THEN id ELSE tab[i]],
     num |-> num + 1]

\* line 162: iface->outstanding[iface->num_outstanding++] = id
StoreOutstanding(tab, num, id) ==
    [tab |-> [i \in DOMAIN tab |-> IF i = num THEN id ELSE tab[i]],
     num |-> num + 1]

\* variant of the result: the length of the whole frame
SendResult_total(payload_len, total_len) == total_len

\* line 170: the value a successful send returns
SendResult(payload_len, total_len) == payload_len

\* lines 172-178: what each error label leaves behind.  id_state is the
\* state of the handle created by this call ("unused": destroyed, the
\* native layer may give it out again) and hdr_held says whether the
\* staging buffer is still allocated when the function returns.
ErrDestroyId_leak == [id_state |-> "sent", hdr_held |-> FALSE]
ErrDestroyId == [id_state |-> "unused", hdr_held |-> FALSE]
ErrFree      == [hdr_held |-> FALSE]

\* variant of lines 149 and 158: the native return code is passed on
StatusOfRet_raw(ret) == ret

\* lines 147-149 and 156-158: a native call that returns non-zero (its
\* code is ret) is logged and becomes UCS_ERR_IO_ERROR
StatusOfRet(ret) == "IO_ERROR"

\* Lines 119-164 and 172-178, the part of the send after the admission
\* test, as a function of the interface state (num, tab, ids, nid) and of
\* what the collaborators answer: the pack callback returns len,
\* ucs_malloc succeeds iff mallocOk, ib_cm_create_id iff createOk,
\* ib_cm_send_sidr_req iff sendOk.
AmBcopyAdmitted(num, tab, ids, nid, am_id, len, mallocOk, createOk, sendOk) ==
    LET same == [num |-> num, tab |-> tab, ids |-> ids, nid |-> nid,
                 hdr_held |-> FALSE, id |-> NULL, private_data_len |-> 0,
                 value |-> 0]
    IN
    IF ~mallocOk THEN
        same @@ [status |-> "NO_MEMORY", packed |-> FALSE]
    ELSE IF ~createOk THEN
        [same EXCEPT !.hdr_held = ErrFree.hdr_held]
            @@ [status |-> StatusOfRet("errno"), packed |-> TRUE]
    ELSE
        LET id == nid IN
        IF ~sendOk THEN
            [same EXCEPT !.ids = [ids EXCEPT ![id] = ErrDestroyId.id_state],
                         !.id = id,
                         !.hdr_held = ErrDestroyId.hdr_held]
                @@ [status |-> StatusOfRet("errno"), packed |-> TRUE]
        ELSE
            LET st == StoreOutstanding(tab, num, id) IN
            [num |-> st.num, tab |-> st.tab,
             ids |-> [ids EXCEPT ![id] = "sent"], nid |-> nid + 1,
             hdr_held |-> TRUE, id |-> id,
             private_data_len |-> TotalLen(len),
             value |-> SendResult(len, TotalLen(len)),
             status |-> "SENT", packed |-> TRUE]

\* lines 114-117: what a refused send leaves and returns
AmBcopyRefused(num, tab, ids, nid) ==
    [num |-> num, tab |-> tab, ids |-> ids, nid |-> nid,
     hdr_held |-> FALSE, id |-> NULL, private_data_len |-> 0, value |-> 0,
     status |-> "NO_RESOURCE", packed |-> FALSE]

\* Lines 114-164 and 172-178 executed in one piece with the lock held
AmBcopyLocked(num, tab, ids, nid, am_id, len, mallocOk, createOk, sendOk) ==
    IF NoResource(num)
    THEN AmBcopyRefused(num, tab, ids, nid)
    ELSE AmBcopyAdmitted(num, tab, ids, nid, am_id, len, mallocOk, createOk,
                         sendOk)

\* what a finished am_bcopy leaves in `last`
AmBcopyLast(op, r) ==
    [NoLast EXCEPT !.op = op, !.status = r.status, !.value = r.value,
                   !.packed = r.packed, !.id = r.id,
                   !.private_data_len = r.private_data_len]

\* variant of the entry: the lock is not taken
AmBcopyEnter_nolock(t, ep, am_id) ==
    /\ pc[t] = "idle"
    /\ ep \in alive
    /\ pc' = [pc EXCEPT ![t] = "am_bcopy"]
    /\ call' = [call EXCEPT ![t] = [NoCall EXCEPT !.op = "am_bcopy",
                                    !.ep = ep, !.am_id = am_id]]
    /\ last' = NoLast
    /\ UNCHANGED <<lock, num_outstanding, outstanding, notify_q, alive,
                   cm_id, next_id, next_req, hdr, last_handed>>
    /\ UNCHANGED <<path, stats_vars>>

\* line 112: the call starts and takes the lock
AmBcopyEnter(t, ep, am_id) ==
    /\ pc[t] = "idle"
    /\ ep \in alive
    /\ uct_cm_enter(t)
    /\ pc' = [pc EXCEPT ![t] = "am_bcopy"]
    /\ call' = [call EXCEPT ![t] = [NoCall EXCEPT !.op = "am_bcopy",
                                    !.ep = ep, !.am_id = am_id]]
    /\ last' = NoLast
    /\ UNCHANGED <<num_outstanding, outstanding, notify_q, alive, cm_id,
                   next_id, next_req, hdr, last_handed>>
    /\ UNCHANGED <<path, stats_vars>>

\* lines 114-117: the admission test.  A refused send releases the lock
\* (lines 177-178) and returns; an admitted one goes on with the lock held.
AmBcopyCheck(t) ==
    /\ pc[t] = "am_bcopy"
    /\ IF NoResource(num_outstanding)
       THEN /\ last' = AmBcopyLast("am_bcopy",
                            AmBcopyRefused(num_outstanding, outstanding,
                                           cm_id, next_id))
            /\ uct_cm_leave(t)
            /\ pc' = [pc EXCEPT ![t] = "idle"]
            /\ call' = [call EXCEPT ![t] = NoCall]
       ELSE /\ pc' = [pc EXCEPT ![t] = "am_bcopy_admitted"]
            /\ UNCHANGED <<lock, call, last>>
    /\ UNCHANGED <<num_outstanding, outstanding, notify_q, alive, cm_id,
                   next_id, next_req, hdr, last_handed>>
    /\ UNCHANGED <<path, stats_vars>>

\* lines 119-164 (success, the lock is released at 164) or 119-178
\* (failure).  The pack callback chooses the payload length.
AmBcopySubmit(t) ==
    /\ pc[t] = "am_bcopy_admitted"
    /\ \E len \in PayloadLens, mallocOk, createOk, sendOk \in BOOLEAN :
        LET r == AmBcopyAdmitted(num_outstanding, outstanding, cm_id,
                                 next_id, call[t].am_id, len, mallocOk,
                                 createOk /\ next_id <= MaxHandles, sendOk)
        IN
        /\ num_outstanding' = r.num
        /\ outstanding' = r.tab
        /\ cm_id' = r.ids
        /\ next_id' = r.nid
        /\ hdr' = [hdr EXCEPT ![t] = r.hdr_held]
        /\ uct_cm_leave(t)
        /\ last' = AmBcopyLast("am_bcopy", r)
        /\ IF r.status = "SENT"
           THEN /\ pc' = [pc EXCEPT ![t] = "am_bcopy_sent"]
                /\ call' = [call EXCEPT ![t].id = r.id]
           ELSE /\ pc' = [pc EXCEPT ![t] = "idle"]
                /\ call' = [call EXCEPT ![t] = NoCall]
    /\ UNCHANGED <<notify_q, alive, next_req, last_handed>>
    /\ UNCHANGED <<path, stats_vars>>

\* lines 166-170: trace, ucs_free(hdr), return payload_len
AmBcopyReturn(t) ==
    /\ pc[t] = "am_bcopy_sent"
    /\ hdr' = [hdr EXCEPT ![t] = FALSE]
    /\ pc' = [pc EXCEPT ![t] = "idle"]
    /\ call' = [call EXCEPT ![t] = NoCall]
    /\ UNCHANGED <<lock, num_outstanding, outstanding, notify_q, alive,
                   cm_id, next_id, next_req, last, last_handed>>
    /\ UNCHANGED <<path, stats_vars>>

(* ------------------------ uct_cm_ep_pending_add ----------------------- *)
\* variant of the test: the two answers exchanged
PendingBusy_inverted(num) == num >= max_outstanding

\* line 188: capacity is available, the caller is told to retry now
PendingBusy(num) == num < max_outstanding

\* line 191: the private part of the request records its owner
PendingPriv(req, ep) == [req |-> req, ep |-> ep]

\* line 192: uct_pending_req_push(&iface->notify_q, req)
uct_pending_req_push(q, e) == Append(q, e)

\* line 187: the call starts and takes the lock
PendingAddEnter(t, ep) ==
    /\ pc[t] = "idle"
    /\ ep \in alive
    /\ next_req <= MaxReqs
    /\ uct_cm_enter(t)
    /\ pc' = [pc EXCEPT ![t] = "pending_add"]
    /\ call' = [call EXCEPT ![t] = [NoCall EXCEPT !.op = "pending_add",
                                    !.ep = ep]]
    /\ last' = NoLast
    /\ UNCHANGED <<num_outstanding, outstanding, notify_q, alive, cm_id,
                   next_id, next_req, hdr, last_handed>>
    /\ UNCHANGED <<path, stats_vars>>

\* lines 188-196
PendingAddBody(t) ==
    /\ pc[t] = "pending_add"
    /\ IF PendingBusy(num_outstanding)
       THEN /\ last' = [NoLast EXCEPT !.op = "pending_add",
                                      !.status = "BUSY"]
            /\ UNCHANGED <<notify_q, next_req>>
       ELSE /\ notify_q' = uct_pending_req_push(notify_q,
                                      PendingPriv(next_req, call[t].ep))
            /\ next_req' = next_req + 1
            /\ last' = [NoLast EXCEPT !.op = "pending_add", !.status = "OK"]
    /\ uct_cm_leave(t)
    /\ pc' = [pc EXCEPT ![t] = "idle"]
    /\ call' = [call EXCEPT ![t] = NoCall]
    /\ UNCHANGED <<num_outstanding, outstanding, alive, cm_id, next_id, hdr,
                   last_handed>>
    /\ UNCHANGED <<path, stats_vars>>

(* ----------------------- uct_cm_ep_pending_purge ---------------------- *)
\* line 205: the condition that selects the entries to remove
PurgeCond(priv, ep) == priv.ep = ep

\* uct_pending_queue_purge: the entries that stay, in their order
PurgeKeep(q, ep) == SelectSeq(q, LAMBDA e : ~PurgeCond(e, ep))
\* and the entries removed, each given once to the callback
PurgeDrop(q, ep) == SelectSeq(q, LAMBDA e : PurgeCond(e, ep))

\* The queues a traversal that started on queue `seen` may leave when the
\* queue is `now` at its end.  The traversal is not made under the
\* interface lock: when it unlinks entries and another process changed
\* the queue meanwhile, it may write the links it read at its start.
PurgeOutcomes(seen, now, ep) ==
    {PurgeKeep(now, ep)} \cup
    (IF seen # now /\ PurgeDrop(seen, ep) # <<>>
     THEN {PurgeKeep(seen, ep)} ELSE {})

\* what a traversal that starts on queue q holds of it: links to write
\* back only when it has an entry to unlink
PurgeSeen(q, ep) == IF PurgeDrop(q, ep) = <<>> THEN <<>> ELSE q

\* lines 201-205: the traversal starts.  No uct_cm_enter() is made: the
\* queue is read as it is now, whoever holds the lock.
PendingPurgeStart(t, ep) ==
    /\ pc[t] = "idle"
    /\ ep \in alive
    /\ pc' = [pc EXCEPT ![t] = "pending_purge"]
    /\ call' = [call EXCEPT ![t] = [NoCall EXCEPT !.op = "pending_purge",
                                    !.ep = ep,
                                    !.snap = PurgeSeen(notify_q, ep)]]
    /\ last' = NoLast
    /\ UNCHANGED <<lock, num_outstanding, outstanding, notify_q, alive,
                   cm_id, next_id, next_req, hdr, last_handed>>
    /\ UNCHANGED <<path, stats_vars>>

\* lines 205-206: the matching entries are unlinked and given to cb
PendingPurgeFinish(t) ==
    /\ pc[t] = "pending_purge"
    /\ notify_q' \in PurgeOutcomes(call[t].snap, notify_q, call[t].ep)
    /\ last' = [NoLast EXCEPT !.op = "pending_purge", !.status = "OK"]
    /\ pc' = [pc EXCEPT ![t] = "idle"]
    /\ call' = [call EXCEPT ![t] = NoCall]
    /\ UNCHANGED <<lock, num_outstanding, outstanding, alive, cm_id,
                   next_id, next_req, hdr, last_handed>>
    /\ UNCHANGED <<path, stats_vars>>

(* --------------------------- uct_cm_ep_flush -------------------------- *)
\* uct_cm_iface_flush_do(iface): with the lock held, the flush is complete
\* iff no transaction is outstanding, and in progress otherwise
uct_cm_iface_flush_do(num) == IF num = 0 THEN "OK" ELSE "INPROGRESS"

\* variant of the result: the flush is always reported complete
FlushStatus_ok(status) == "OK"

\* lines 212 and 218: the status of uct_cm_iface_flush_do is returned as
\* it is
FlushStatus(status) == status

\* the call starts; uct_cm_iface_flush_do takes the lock
FlushEnter(t, ep) ==
    /\ pc[t] = "idle"
    /\ ep \in alive
    /\ uct_cm_enter(t)
    /\ pc' = [pc EXCEPT ![t] = "flush"]
    /\ call' = [call EXCEPT ![t] = [NoCall EXCEPT !.op = "flush",
                                    !.ep = ep]]
    /\ last' = NoLast
    /\ UNCHANGED <<num_outstanding, outstanding, notify_q, alive, cm_id,
                   next_id, next_req, hdr, last_handed>>
    /\ UNCHANGED <<path, stats_vars>>

\* lines 212-218: the counter is read, the lock released and the status
\* returned
FlushBody(t) ==
    /\ pc[t] = "flush"
    /\ last' = [NoLast EXCEPT
                   !.op = "flush",
                   !.status = FlushStatus(
                                  uct_cm_iface_flush_do(num_outstanding))]
    /\ uct_cm_leave(t)
    /\ pc' = [pc EXCEPT ![t] = "idle"]
    /\ call' = [call EXCEPT ![t] = NoCall]
    /\ UNCHANGED <<num_outstanding, outstanding, notify_q, alive, cm_id,
                   next_id, next_req, hdr, last_handed>>
    /\ UNCHANGED <<path, stats_vars>>

(* --------------------------- endpoint cleanup ------------------------- *)
\* variant of the cleanup: the transactions outstanding on the interface
\* are cancelled
EpCleanup_cancel(t, ep) ==
    /\ pc[t] = "idle"
    /\ ep \in alive
    /\ \A p \in Procs : call[p].ep # ep
    /\ alive' = alive \ {ep}
    /\ num_outstanding' = 0
    /\ outstanding' = [i \in Slots |-> NULL]
    /\ last' = [NoLast EXCEPT !.op = "ep_destroy", !.status = "OK"]
    /\ UNCHANGED <<pc, lock, notify_q, cm_id, next_id, next_req, call, hdr,
                   last_handed>>
    /\ UNCHANGED <<path, stats_vars>>

\* lines 37-40: UCS_CLASS_CLEANUP_FUNC(uct_cm_ep_t) only traces; the
\* endpoint is gone afterwards.  A caller does not destroy an endpoint
\* while a call on it is in progress.
EpCleanup(t, ep) ==
    /\ pc[t] = "idle"
    /\ ep \in alive
    /\ \A p \in Procs : call[p].ep # ep
    /\ alive' = alive \ {ep}
    /\ last' = [NoLast EXCEPT !.op = "ep_destroy", !.status = "OK"]
    /\ UNCHANGED <<pc, lock, num_outstanding, outstanding, notify_q, cm_id,
                   next_id, next_req, call, hdr, last_handed>>
    /\ UNCHANGED <<path, stats_vars>>

(* -------------------- completion of a SIDR request -------------------- *)
\* variant of the removal: the counter is not decremented
OutstandingRemove_nodec(tab, num, i) ==
    [tab |-> [j \in DOMAIN tab |->
                 IF j < i THEN tab[j]
                 ELSE IF j + 1 < num THEN tab[j + 1]
                 ELSE NULL],
     num |-> num]

\* The event handler of the interface: the handle at slot i is removed from
\* the table, the entries after it move down, the counter is decremented
\* and the handle is destroyed.
OutstandingRemove(tab, num, i) ==
    [tab |-> [j \in DOMAIN tab |->
                 IF j < i THEN tab[j]
                 ELSE IF j + 1 < num THEN tab[j + 1]
                 ELSE NULL],
     num |-> num - 1]

\* the pending queue is popped at its head
PendingPop(q) == [head |-> Head(q), rest |-> Tail(q)]

CompletionEnter ==
    /\ pc[Async] = "idle"
    /\ num_outstanding > 0
    /\ uct_cm_enter(Async)
    /\ pc' = [pc EXCEPT ![Async] = "completion"]
    /\ last' = NoLast
    /\ UNCHANGED <<num_outstanding, outstanding, notify_q, alive, cm_id,
                   next_id, next_req, call, hdr, last_handed>>
    /\ UNCHANGED <<path, stats_vars>>

\* With the lock held: remove and destroy the completed handle, then
\* dequeue one pending request, hand it back to its owner and retry its
\* send (lines 114-178 again, the lock already held).
CompletionBody(i) ==
    /\ pc[Async] = "completion"
    /\ i < num_outstanding
    /\ LET rm  == OutstandingRemove(outstanding, num_outstanding, i)
           ids == [cm_id EXCEPT ![outstanding[i]] = "completed"]
       IN
       IF notify_q = <<>>
       THEN /\ num_outstanding' = rm.num
            /\ outstanding' = rm.tab
            /\ cm_id' = ids
            /\ last' = [NoLast EXCEPT !.op = "completion", !.status = "OK"]
            /\ UNCHANGED <<notify_q, last_handed, next_id>>
       ELSE \E a \in AmIds, len \in PayloadLens,
               mallocOk, createOk, sendOk \in BOOLEAN :
            LET pop == PendingPop(notify_q)
                r   == AmBcopyLocked(rm.num, rm.tab, ids, next_id, a, len,
                                     mallocOk,
                                     createOk /\ next_id <= MaxHandles,
                                     sendOk)
            IN
            /\ notify_q' = pop.rest
            /\ last_handed' = pop.head.req
            /\ num_outstanding' = r.num
            /\ outstanding' = r.tab
            /\ cm_id' = r.ids
            /\ next_id' = r.nid
            /\ last' = AmBcopyLast("retry", r)
    /\ uct_cm_leave(Async)
    /\ pc' = [pc EXCEPT ![Async] = "idle"]
    /\ UNCHANGED <<alive, next_req, call, hdr>>
    /\ UNCHANGED <<path, stats_vars>>

Next ==
    \/ \E t \in Threads, a \in AmIds : AmBcopyEnter(t, EpOf(t), a)
    \/ \E t \in Threads : AmBcopyCheck(t)
    \/ \E t \in Threads : AmBcopySubmit(t)
    \/ \E t \in Threads : AmBcopyReturn(t)
    \/ \E t \in Threads : PendingAddEnter(t, EpOf(t))
    \/ \E t \in Threads : PendingAddBody(t)
    \/ \E t \in Threads : PendingPurgeStart(t, EpOf(t))
    \/ \E t \in Threads : PendingPurgeFinish(t)
    \/ \E t \in Threads : FlushEnter(t, EpOf(t))
    \/ \E t \in Threads : FlushBody(t)
    \/ \E t \in Threads : EpCleanup(t, EpOf(t))
    \/ CompletionEnter
    \/ \E i \in Slots : CompletionBody(i)

Spec == Init /\ [][Next]_vars

(* ------------------------- a loaded interface ------------------------- *)
\* The interface after max_outstanding sends succeeded and one more
\* request than that was added to the pending queue: the table is full
\* and the requests wait for completions.
LoadedQueue ==
    [i \in 1..(max_outstanding + 1) |->
        PendingPriv(i, IF i % 2 = 1 THEN "epA" ELSE "epB")]

LoadedInit ==
    /\ pc = [p \in Procs |-> "idle"]
    /\ lock = NoOwner
    /\ num_outstanding = max_outstanding
    /\ outstanding = [i \in Slots |-> i + 1]
    /\ cm_id = [h \in Handles |->
                   IF h <= max_outstanding THEN "sent" ELSE "unused"]
    /\ next_id = max_outstanding + 1
    /\ notify_q = LoadedQueue
    /\ next_req = Len(LoadedQueue) + 1
    /\ alive = Endpoints
    /\ call = [p \in Procs |-> NoCall]
    /\ hdr = [p \in Procs |-> FALSE]
    /\ last = NoLast
    /\ last_handed = 0
    /\ path = NoPath
    /\ StatsOff

\* sends, flushes and completions on the loaded interface
LoadedNext ==
    \/ \E t \in Threads, a \in AmIds : AmBcopyEnter(t, EpOf(t), a)
    \/ \E t \in Threads : AmBcopyCheck(t)
    \/ \E t \in Threads : AmBcopySubmit(t)
    \/ \E t \in Threads : AmBcopyReturn(t)
    \/ \E t \in Threads : FlushEnter(t, EpOf(t))
    \/ \E t \in Threads : FlushBody(t)
    \/ CompletionEnter
    \/ \E i \in Slots : CompletionBody(i)

SpecLoaded == LoadedInit /\ [][LoadedNext]_vars

(* ----------------------- uct_cm_ep_fill_path_rec ---------------------- *)
\* number of calls of uct_cm_ep_fill_path_rec followed in one behaviour
MaxPathCalls == 2

\* htons(), ntohs() and htonl() on a little-endian host: the bytes of the
\* 16-bit (32-bit) value are reversed
htons(x) == (x % 256) * 256 + ((x \div 256) % 256)
ntohs(x) == (x % 256) * 256 + ((x \div 256) % 256)
htonl(x) == (x % 256) * 16777216 + ((x \div 256) % 256) * 65536
              + ((x \div 65536) % 256) * 256 + ((x \div 16777216) % 256)
\* enum ibv_rate
IBV_RATE_MAX == 0

\* variant: the service level is taken from the load of the interface
uct_cm_ep_fill_path_rec_load(ep, iface) ==
    [status |-> "OK",
     path |-> [dgid |-> ep.dest_addr.gid,
               sgid |-> iface.gid,
               dlid |-> htons(ep.dest_addr.lid),
               slid |-> htons(iface.port_attr.lid),
               raw_traffic |-> 0, flow_label |-> 0, hop_limit |-> 0,
               traffic_class |-> 0,
               reversible |-> htonl(1),
               numb_path |-> 0,
               pkey |-> ntohs(iface.pkey_value),
               sl |-> iface.num_outstanding,
               mtu_selector |-> 2,
               mtu |-> iface.port_attr.active_mtu,
               rate_selector |-> 2,
               rate |-> IBV_RATE_MAX,
               packet_life_time_selector |-> 2,
               packet_life_time |-> 0,
               preference |-> 0]]

\* lines 48-73: the path record of endpoint ep on interface iface.  ep and
\* iface are the structures the function can read: the interface has its
\* port attributes and also its counter and its pending queue.
uct_cm_ep_fill_path_rec(ep, iface) ==
    [status |-> "OK",
     path |-> [dgid |-> ep.dest_addr.gid,
               sgid |-> iface.gid,
               dlid |-> htons(ep.dest_addr.lid),
               slid |-> htons(iface.port_attr.lid),
               raw_traffic |-> 0, flow_label |-> 0, hop_limit |-> 0,
               traffic_class |-> 0,
               reversible |-> htonl(1),
               numb_path |-> 0,
               pkey |-> ntohs(iface.pkey_value),
               sl |-> iface.sl,
               mtu_selector |-> 2,
               mtu |-> iface.port_attr.active_mtu,
               rate_selector |-> 2,
               rate |-> IBV_RATE_MAX,
               packet_life_time_selector |-> 2,
               packet_life_time |-> 0,
               preference |-> 0]]

\* destination addresses and local port attributes
PathLids  == {1, 258}
PathPkeys == {65535, 32769}
PathEps   == {[dest_addr |-> [gid |-> "gidB", lid |-> l]] : l \in PathLids}
\* what sends, completions and pending requests change in the interface
PathLoads == {[num_outstanding |-> n, notify_q |-> q] :
                 n \in 0..max_outstanding,
                 q \in {<<>>, <<[req |-> 1, ep |-> "epA"]>>}}
PathIface(k, load) ==
    [gid |-> "gidA", pkey_value |-> k, sl |-> 1,
     port_attr |-> [lid |-> 3, active_mtu |-> 4],
     num_outstanding |-> load.num_outstanding, notify_q |-> load.notify_q]
\* the arguments of the send that builds the path record
PathArgs  == {[am_id |-> 3, payload_len |-> 32],
              [am_id |-> 5, payload_len |-> 215]}

PathInit ==
    /\ CmInit
    /\ StatsOff
    /\ \E e \in PathEps, k \in PathPkeys, load \in PathLoads :
          path = [ep |-> e, iface |-> PathIface(k, load), out |-> <<>>]

\* the counter and the queue of the interface change
PathLoad ==
    /\ \E load \in PathLoads :
          /\ load # [num_outstanding |-> path.iface.num_outstanding,
                     notify_q |-> path.iface.notify_q]
          /\ path' = [path EXCEPT
                         !.iface = PathIface(path.iface.pkey_value, load)]
    /\ UNCHANGED <<cm_vars, stats_vars>>

\* line 131: a send with arguments a builds the path record
PathFill ==
    /\ Len(path.out) < MaxPathCalls
    /\ \E a \in PathArgs :
          path' = [path EXCEPT !.out = Append(@,
                      [args |-> a,
                       num_outstanding |-> path.iface.num_outstanding,
                       notify_q |-> path.iface.notify_q,
                       rec |-> uct_cm_ep_fill_path_rec(path.ep,
                                                       path.iface)])]
    /\ UNCHANGED <<cm_vars, stats_vars>>

PathNext == PathLoad \/ PathFill

SpecPath == PathInit /\ [][PathNext]_vars

(* ===================== statistics: src/ucs/stats/stats.c =============== *)
\* number of calls of ucs_stats_init() in one behaviour
MaxInits == 1
\* number of calls of ucs_stats_dump() the user thread makes in one behaviour
MaxDumps == 1

\* enum at lines 26-35: the flags of ucs_stats_context.flags
ON_EXIT       == "ON_EXIT"
ON_TIMER      == "ON_TIMER"
ON_SIGNAL     == "ON_SIGNAL"
SOCKET        == "SOCKET"
STREAM        == "STREAM"
STREAM_CLOSE  == "STREAM_CLOSE"
STREAM_BINARY == "STREAM_BINARY"
StatsFlags == {ON_EXIT, ON_TIMER, ON_SIGNAL, SOCKET, STREAM, STREAM_CLOSE,
               STREAM_BINARY}

\* values of ucs_global_opts.stats_dest.  udp: does the string start with
\* "udp:"; hostname: is there a host name after it; need_close and
\* next_token: what ucs_open_output_stream() answers for the string;
\* open_ok: does ucs_stats_client_init() / ucs_open_output_stream() succeed
StatsDest(name, udp, hostname, need_close, next_token, open_ok) ==
    [name |-> name, udp |-> udp, hostname |-> hostname,
     need_close |-> need_close, next_token |-> next_token,
     open_ok |-> open_ok]
StatsDests ==
    {StatsDest("", FALSE, FALSE, FALSE, "", TRUE),
     StatsDest("udp:", TRUE, FALSE, FALSE, "", TRUE)}
    \cup {StatsDest("udp:host:37873", TRUE, TRUE, FALSE, "", ok) :
             ok \in BOOLEAN}
    \cup {StatsDest("stdout", FALSE, FALSE, FALSE, "", TRUE),
          StatsDest("stdout:bin", FALSE, FALSE, FALSE, ":bin", TRUE)}
    \cup {StatsDest("file:/tmp/stats", FALSE, FALSE, TRUE, "", ok) :
             ok \in BOOLEAN}
    \cup {StatsDest("file:/tmp/stats:bin", FALSE, FALSE, TRUE, ":bin", TRUE)}

\* values of ucs_global_opts.stats_trigger.  kind: which branch of lines
\* 339-363 the string takes; parse_ok: does ucs_config_sscanf_time() /
\* ucs_config_sscanf_signo() accept the rest; interval: the time parsed
StatsTrigger(name, kind, parse_ok, interval) ==
    [name |-> name, kind |-> kind, parse_ok |-> parse_ok,
     interval |-> interval]
StatsTriggers ==
    {StatsTrigger("", "", TRUE, 0),
     StatsTrigger("exit", "exit", TRUE, 0),
     StatsTrigger("timer:1s", "timer:", TRUE, 1),
     StatsTrigger("timer:0", "timer:", TRUE, 0),
     StatsTrigger("timer:soon", "timer:", FALSE, 0),
     StatsTrigger("signal:SIGUSR1", "signal:", TRUE, 0),
     StatsTrigger("signal:no", "signal:", FALSE, 0),
     StatsTrigger("always", "other", TRUE, 0)}

StatsConfigs == [dest : StatsDests, trigger : StatsTriggers]

\* lines 447-450
ucs_stats_is_active(flags) == flags \cap {SOCKET, STREAM} # {}

\* lines 264-311: the flags after ucs_stats_open_dest()
ucs_stats_open_dest(flags, dest) ==
    IF dest.udp
    THEN IF ~dest.hostname THEN flags
         ELSE IF ~dest.open_ok THEN flags
         ELSE flags \cup {SOCKET}
    ELSE IF dest.name # ""
    THEN IF ~dest.open_ok THEN flags
         ELSE (flags \cup {STREAM})
                \cup (IF dest.need_close THEN {STREAM_CLOSE} ELSE {})
                \cup (IF dest.next_token = ":bin" THEN {STREAM_BINARY}
                      ELSE {})
    ELSE flags

\* variant: the binary flag is left out of the mask of line 324
ucs_stats_close_dest_keepbin(flags) ==
    LET f1 == IF SOCKET \in flags THEN flags \ {SOCKET} ELSE flags
    IN  IF STREAM \in f1
        THEN f1 \ {STREAM, STREAM_CLOSE}
        ELSE f1

\* lines 313-328: the flags after ucs_stats_close_dest()
ucs_stats_close_dest(flags) ==
    LET f1 == IF SOCKET \in flags THEN flags \ {SOCKET} ELSE flags
    IN  IF STREAM \in f1
        THEN f1 \ {STREAM, STREAM_BINARY, STREAM_CLOSE}
        ELSE f1

\* lines 335-364: the flags after ucs_stats_set_trigger()
ucs_stats_set_trigger(flags, trigger) ==
    IF trigger.kind = "exit" THEN flags \cup {ON_EXIT}
    ELSE IF trigger.kind = "timer:"
    THEN IF ~trigger.parse_ok THEN flags ELSE flags \cup {ON_TIMER}
    ELSE IF trigger.kind = "signal:"
    THEN IF ~trigger.parse_ok THEN flags ELSE flags \cup {ON_SIGNAL}
    ELSE flags

\* lines 404-426: ucs_stats_init().  Line 349 starts the statistics thread
\* when the timer trigger is set; pthread_create() succeeds.
ucs_stats_init(cfg) ==
    /\ stats_pc[StatsMain] = "idle"
    /\ stats_calls.init < MaxInits
    /\ LET opened == ucs_stats_open_dest(stats_flags, cfg.dest)
           flags  == IF ucs_stats_is_active(opened)
                     THEN ucs_stats_set_trigger(opened, cfg.trigger)
                     ELSE opened
       IN  /\ stats_flags' = flags
           /\ stats_pc' = [stats_pc EXCEPT
                  ![StatsMain] = "run",
                  ![StatsThread] = IF ON_TIMER \in flags THEN "read"
                                   ELSE @]
    /\ stats_cfg' = cfg
    /\ stats_calls' = [stats_calls EXCEPT !.init = @ + 1]
    /\ UNCHANGED <<stats_lock, stats_tflags, stats_node, stats_arg>>
    /\ UNCHANGED <<cm_vars, path>>

\* where ucs_stats_unset_trigger() and the rest of ucs_stats_cleanup() go
\* on with the flags as they are: lines 370, 376, 382, 435
CleanupPos(flags) ==
    IF ON_EXIT \in flags THEN "unset_exit"
    ELSE IF ON_SIGNAL \in flags THEN "unset_signal"
    ELSE "clean"

\* lines 428-434 and 370: ucs_stats_cleanup() is called
ucs_stats_cleanup ==
    /\ stats_pc[StatsMain] = "run"
    /\ stats_pc' = [stats_pc EXCEPT ![StatsMain] =
          IF ~ucs_stats_is_active(stats_flags) THEN "idle"
          ELSE IF ON_TIMER \in stats_flags THEN "unset_timer"
          ELSE CleanupPos(stats_flags)]
    /\ UNCHANGED <<stats_flags, stats_lock, stats_cfg, stats_tflags,
                   stats_node, stats_arg, stats_calls>>
    /\ UNCHANGED <<cm_vars, path>>

\* line 371
UnsetTimerClear ==
    /\ stats_pc[StatsMain] = "unset_timer"
    /\ stats_flags' = stats_flags \ {ON_TIMER}
    /\ stats_pc' = [stats_pc EXCEPT ![StatsMain] = "timer_wake"]
    /\ UNCHANGED <<stats_lock, stats_cfg, stats_tflags, stats_node,
                   stats_arg, stats_calls>>
    /\ UNCHANGED <<cm_vars, path>>

\* variant: the wake-up reaches no one
FutexWake_none(pcs) == pcs

\* FUTEX_WAKE on &ucs_stats_context.flags (line 372): a thread that sleeps
\* in FUTEX_WAIT on the word returns from the wait
FutexWake(pcs) ==
    [pcs EXCEPT ![StatsThread] = IF @ = "futex_wait" THEN "dump" ELSE @]

\* line 372
UnsetTimerWake ==
    /\ stats_pc[StatsMain] = "timer_wake"
    /\ stats_pc' = [FutexWake(stats_pc) EXCEPT ![StatsMain] = "timer_join"]
    /\ UNCHANGED <<stats_flags, stats_lock, stats_cfg, stats_tflags,
                   stats_node, stats_arg, stats_calls>>
    /\ UNCHANGED <<cm_vars, path>>

\* line 373: pthread_join() returns once the thread function has returned
UnsetTimerJoin ==
    /\ stats_pc[StatsMain] = "timer_join"
    /\ stats_pc[StatsThread] = "exited"
    /\ stats_pc' = [stats_pc EXCEPT ![StatsMain] = CleanupPos(stats_flags),
                                    ![StatsThread] = "none"]
    /\ UNCHANGED <<stats_flags, stats_lock, stats_cfg, stats_tflags,
                   stats_node, stats_arg, stats_calls>>
    /\ UNCHANGED <<cm_vars, path>>

\* lines 376-378: ucs_stats_unset_trigger() enters __ucs_stats_dump(1)
UnsetExitDump ==
    /\ stats_pc[StatsMain] = "unset_exit"
    /\ stats_pc' = [stats_pc EXCEPT ![StatsMain] = "exit_dump"]
    /\ UNCHANGED <<stats_flags, stats_lock, stats_cfg, stats_tflags,
                   stats_node, stats_arg, stats_calls>>
    /\ UNCHANGED <<cm_vars, path>>

\* lines 378-379: __ucs_stats_dump(1) returns, the exit flag is cleared
UnsetExitClear ==
    /\ stats_pc[StatsMain] = "exit_dump"
    /\ stats_flags' = stats_flags \ {ON_EXIT}
    /\ stats_pc' = [stats_pc EXCEPT ![StatsMain] =
                       CleanupPos(stats_flags \ {ON_EXIT})]
    /\ UNCHANGED <<stats_lock, stats_cfg, stats_tflags, stats_node,
                   stats_arg, stats_calls>>
    /\ UNCHANGED <<cm_vars, path>>

\* lines 382-385
UnsetSignal ==
    /\ stats_pc[StatsMain] = "unset_signal"
    /\ stats_flags' = stats_flags \ {ON_SIGNAL}
    /\ stats_pc' = [stats_pc EXCEPT ![StatsMain] = "clean"]
    /\ UNCHANGED <<stats_lock, stats_cfg, stats_tflags, stats_node,
                   stats_arg, stats_calls>>
    /\ UNCHANGED <<cm_vars, path>>

\* the children of parent p that are in its list of inactive children
InactiveChildren(nodes, p) ==
    {n \in StatsNodes : nodes[n].parent = p /\ nodes[n].st = "inactive"}

\* lines 388-402: the nodes ucs_stats_clean_node_recurs(node) removes and
\* frees: the inactive children of node and, through them, theirs
RECURSIVE ucs_stats_clean_node_recurs(_, _)
ucs_stats_clean_node_recurs(nodes, node) ==
    LET children == InactiveChildren(nodes, node)
    IN  children \cup
        UNION {ucs_stats_clean_node_recurs(nodes, c) : c \in children}

\* line 435: every node_remove(child, 0) of the walk takes the lock
CleanNodes ==
    /\ stats_pc[StatsMain] = "clean"
    /\ LET freed == ucs_stats_clean_node_recurs(stats_node, StatsRoot)
       IN  /\ freed # {} => stats_lock = NoOwner
           /\ stats_node' = [n \in StatsNodes |->
                 IF n \in freed THEN [st |-> "freed", parent |-> "none"]
                 ELSE stats_node[n]]
    /\ stats_pc' = [stats_pc EXCEPT ![StatsMain] = "close_dest"]
    /\ UNCHANGED <<stats_flags, stats_lock, stats_cfg, stats_tflags,
                   stats_arg, stats_calls>>
    /\ UNCHANGED <<cm_vars, path>>

\* lines 436-437
CloseDest ==
    /\ stats_pc[StatsMain] = "close_dest"
    /\ stats_flags' = ucs_stats_close_dest(stats_flags)
    /\ stats_pc' = [stats_pc EXCEPT ![StatsMain] = "idle"]
    /\ UNCHANGED <<stats_lock, stats_cfg, stats_tflags, stats_node,
                   stats_arg, stats_calls>>
    /\ UNCHANGED <<cm_vars, path>>

(* ------------------------ ucs_stats_thread_func ----------------------- *)
\* lines 253-254 and 258: the thread copies the flags and tests the copy
ThreadRead ==
    /\ stats_pc[StatsThread] = "read"
    /\ stats_tflags' = stats_flags
    /\ stats_pc' = [stats_pc EXCEPT ![StatsThread] =
                       IF ON_TIMER \in stats_flags THEN "futex"
                       ELSE "exited"]
    /\ UNCHANGED <<stats_flags, stats_lock, stats_cfg, stats_node,
                   stats_arg, stats_calls>>
    /\ UNCHANGED <<cm_vars, path>>

\* FUTEX_WAIT on a word with the value val expected in it: the caller
\* sleeps only if the word still holds val, else the call returns at once
FutexWait(word, val) == IF word = val THEN "futex_wait" ELSE "dump"

\* line 256: the call of ucs_sys_futex(&flags, FUTEX_WAIT, flags, ptime)
ThreadFutexWait ==
    /\ stats_pc[StatsThread] = "futex"
    /\ stats_pc' = [stats_pc EXCEPT ![StatsThread] =
                       FutexWait(stats_flags, stats_tflags)]
    /\ UNCHANGED <<stats_flags, stats_lock, stats_cfg, stats_tflags,
                   stats_node, stats_arg, stats_calls>>
    /\ UNCHANGED <<cm_vars, path>>

\* lines 243-251 and 256: the wait has a timeout only if interval > 0
ThreadTimeout ==
    /\ stats_pc[StatsThread] = "futex_wait"
    /\ stats_cfg.trigger.interval > 0
    /\ stats_pc' = [stats_pc EXCEPT ![StatsThread] = "dump"]
    /\ UNCHANGED <<stats_flags, stats_lock, stats_cfg, stats_tflags,
                   stats_node, stats_arg, stats_calls>>
    /\ UNCHANGED <<cm_vars, path>>

(* ---------------------------- ucs_stats_dump -------------------------- *)
\* line 442: the statistics thread (line 257) or a user thread, directly or
\* from ucs_stats_dump_sighandler (line 332), calls ucs_stats_dump()
DumpLock(p) ==
    /\ \/ p = StatsThread /\ stats_pc[p] = "dump"
       \/ p = StatsUser /\ stats_pc[p] = "idle"
            /\ stats_calls.dump < MaxDumps
    /\ stats_lock = NoOwner
    /\ stats_lock' = p
    /\ stats_pc' = [stats_pc EXCEPT ![p] = "in_dump"]
    /\ stats_calls' = IF p = StatsUser
                      THEN [stats_calls EXCEPT !.dump = @ + 1]
                      ELSE stats_calls
    /\ UNCHANGED <<stats_flags, stats_cfg, stats_tflags, stats_node,
                   stats_arg>>
    /\ UNCHANGED <<cm_vars, path>>

\* lines 443-444: __ucs_stats_dump(0) returns and the lock is released
DumpUnlock(p) ==
    /\ p \in {StatsThread, StatsUser}
    /\ stats_pc[p] = "in_dump"
    /\ stats_lock' = NoOwner
    /\ stats_pc' = [stats_pc EXCEPT ![p] =
                       IF p = StatsThread THEN "read" ELSE "idle"]
    /\ UNCHANGED <<stats_flags, stats_cfg, stats_tflags, stats_node,
                   stats_arg, stats_calls>>
    /\ UNCHANGED <<cm_vars, path>>

(* ------------------ ucs_stats_node_alloc, ucs_stats_node_free --------- *)
\* the parents a node may be given: n1 hangs under the root, n2 under the
\* root or under n1
NodeParents(n) == IF n = "n1" THEN {StatsRoot} ELSE {StatsRoot, "n1"}
ActiveChildren(nodes, p) ==
    {n \in StatsNodes : nodes[n].parent = p /\ nodes[n].st = "active"}

\* lines 152-183 and 91: ucs_stats_node_alloc() on active statistics makes
\* the node and enters ucs_stats_node_add(), which takes the lock.  The
\* parent is the root or a node the caller has not released.
NodeAllocLock(n, parent) ==
    /\ stats_pc[StatsUser] = "idle"
    /\ stats_node[n].st = "none"
    /\ ucs_stats_is_active(stats_flags)
    /\ parent \in NodeParents(n)
    /\ parent # StatsRoot => stats_node[parent].st = "active"
    /\ stats_lock = NoOwner
    /\ stats_lock' = StatsUser
    /\ stats_pc' = [stats_pc EXCEPT ![StatsUser] = "node_add"]
    /\ stats_arg' = [node |-> n, parent |-> parent, make_inactive |-> FALSE]
    /\ UNCHANGED <<stats_flags, stats_cfg, stats_tflags, stats_node,
                   stats_calls>>
    /\ UNCHANGED <<cm_vars, path>>

\* lines 92-98: the node joins the active children of its parent
NodeAddBody ==
    /\ stats_pc[StatsUser] = "node_add"
    /\ stats_node' = [stats_node EXCEPT ![stats_arg.node] =
                         [st |-> "active", parent |-> stats_arg.parent]]
    /\ stats_lock' = NoOwner
    /\ stats_pc' = [stats_pc EXCEPT ![StatsUser] = "idle"]
    /\ stats_arg' = NoArg
    /\ UNCHANGED <<stats_flags, stats_cfg, stats_tflags, stats_calls>>
    /\ UNCHANGED <<cm_vars, path>>

\* lines 185-198: ucs_stats_node_free(n) reads the exit flag and calls
\* ucs_stats_node_remove(n, 1) or ucs_stats_node_remove(n, 0).  The caller
\* releases a node after the nodes it put under it.
NodeFree(n) ==
    /\ stats_pc[StatsUser] = "idle"
    /\ stats_node[n].st = "active"
    /\ ActiveChildren(stats_node, n) = {}
    /\ stats_pc' = [stats_pc EXCEPT ![StatsUser] = "node_remove"]
    /\ stats_arg' = [node |-> n, parent |-> stats_node[n].parent,
                     make_inactive |-> ON_EXIT \in stats_flags]
    /\ UNCHANGED <<stats_flags, stats_lock, stats_cfg, stats_tflags,
                   stats_node, stats_calls>>
    /\ UNCHANGED <<cm_vars, path>>

\* line 110
NodeRemoveLock ==
    /\ stats_pc[StatsUser] = "node_remove"
    /\ stats_lock = NoOwner
    /\ stats_lock' = StatsUser
    /\ stats_pc' = [stats_pc EXCEPT ![StatsUser] = "node_removing"]
    /\ UNCHANGED <<stats_flags, stats_cfg, stats_tflags, stats_node,
                   stats_arg, stats_calls>>
    /\ UNCHANGED <<cm_vars, path>>

\* lines 111-115 and 195-198: the node is unlinked; it joins the inactive
\* children of its parent, or is freed after the unlock
NodeRemoveBody ==
    /\ stats_pc[StatsUser] = "node_removing"
    /\ stats_node' = [stats_node EXCEPT ![stats_arg.node] =
          IF stats_arg.make_inactive
          THEN [st |-> "inactive", parent |-> stats_arg.parent]
          ELSE [st |-> "freed", parent |-> "none"]]
    /\ stats_lock' = NoOwner
    /\ stats_pc' = [stats_pc EXCEPT ![StatsUser] = "idle"]
    /\ stats_arg' = NoArg
    /\ UNCHANGED <<stats_flags, stats_cfg, stats_tflags, stats_calls>>
    /\ UNCHANGED <<cm_vars, path>>

StatsNext ==
    \/ \E cfg \in StatsConfigs : ucs_stats_init(cfg)
    \/ ucs_stats_cleanup
    \/ UnsetTimerClear
    \/ UnsetTimerWake
    \/ UnsetTimerJoin
    \/ UnsetExitDump
    \/ UnsetExitClear
    \/ UnsetSignal
    \/ CleanNodes
    \/ CloseDest
    \/ ThreadRead
    \/ ThreadFutexWait
    \/ ThreadTimeout
    \/ \E p \in {StatsThread, StatsUser} : DumpLock(p)
    \/ \E p \in {StatsThread, StatsUser} : DumpUnlock(p)
    \/ \E n \in StatsNodes, parent \in StatsNodes \cup {StatsRoot} :
          NodeAllocLock(n, parent)
    \/ NodeAddBody
    \/ \E n \in StatsNodes : NodeFree(n)
    \/ NodeRemoveLock
    \/ NodeRemoveBody

SpecStats == Init /\ [][StatsNext]_vars

\* the steps of the statistics thread, of ucs_stats_cleanup() once it is
\* called, and of a user thread that holds the lock
StatsThreadStep ==
    \/ ThreadRead
    \/ ThreadFutexWait
    \/ ThreadTimeout
    \/ DumpLock(StatsThread)
    \/ DumpUnlock(StatsThread)
StatsCleanupStep ==
    \/ UnsetTimerClear
    \/ UnsetTimerWake
    \/ UnsetTimerJoin
    \/ UnsetExitDump
    \/ UnsetExitClear
    \/ UnsetSignal
    \/ CleanNodes
    \/ CloseDest
StatsLockedStep ==
    \/ DumpUnlock(StatsUser)
    \/ NodeAddBody
    \/ NodeRemoveBody

\* every thread that can run is scheduled again and again
SpecStatsFair ==
    /\ Init
    /\ [][StatsNext]_vars
    /\ WF_vars(StatsThreadStep)
    /\ WF_vars(StatsCleanupStep)
    /\ WF_vars(StatsLockedStep)

\* the steps of a user thread
StatsUserStep ==
    \/ DumpLock(StatsUser)
    \/ DumpUnlock(StatsUser)
    \/ \E n \in StatsNodes, parent \in StatsNodes \cup {StatsRoot} :
          NodeAllocLock(n, parent)
    \/ NodeAddBody
    \/ \E n \in StatsNodes : NodeFree(n)
    \/ NodeRemoveLock
    \/ NodeRemoveBody

\* The program whose user threads make no statistics call while
\* ucs_stats_cleanup() runs: cleanup is called when no user call is in
\* progress, and none starts before the next ucs_stats_init().
QuietNext ==
    \/ \E cfg \in StatsConfigs : ucs_stats_init(cfg)
    \/ stats_pc[StatsUser] = "idle" /\ ucs_stats_cleanup
    \/ StatsCleanupStep
    \/ StatsThreadStep
    \/ stats_pc[StatsMain] = "run" /\ StatsUserStep

SpecStatsQuiet == Init /\ [][QuietNext]_vars

\* process p is inside __ucs_stats_dump (lines 202-235), called from
\* ucs_stats_dump (line 443) or from ucs_stats_unset_trigger (line 378)
InDump(p) == stats_pc[p] \in {"in_dump", "exit_dump"}
\* process p is between the lock and the unlock of ucs_stats_node_add
\* (lines 91-98) or ucs_stats_node_remove (lines 110-115)
InNodeChange(p) == stats_pc[p] \in {"node_add", "node_removing"}

\* ucs_stats_cleanup() takes the step of line 435
CleanStep == stats_pc[StatsMain] = "clean"
               /\ stats_pc'[StatsMain] = "close_dest"

(* ------------------------------ helpers ------------------------------- *)
\* sends that succeeded and completions delivered so far
SuccessfulSends == Cardinality({h \in Handles : cm_id[h] # "unused"})
Completions     == Cardinality({h \in Handles : cm_id[h] = "completed"})

\* thread t takes the step that ends the locked part of its am_bcopy
AmBcopyFailed(t) == pc[t] \in {"am_bcopy", "am_bcopy_admitted"}
                      /\ pc'[t] = "idle"
AmBcopySent(t)   == pc[t] = "am_bcopy_admitted" /\ pc'[t] = "am_bcopy_sent"
AmBcopyDone(t)   == AmBcopyFailed(t) \/ AmBcopySent(t)
PendingAddDone(t) == pc[t] = "pending_add" /\ pc'[t] = "idle"
PurgeDone(t)     == pc[t] = "pending_purge" /\ pc'[t] = "idle"
FlushDone(t)     == pc[t] = "flush" /\ pc'[t] = "idle"
\* thread t takes the step that executes lines 166-170
AmBcopyTrace(t)  == pc[t] = "am_bcopy_sent" /\ pc'[t] = "idle"
\* the handles in the table
Outstanding(tab, num) == {tab[i] : i \in {j \in Slots : j < num}}
\* the completion handler takes the step that hands a request back
HandBack == pc[Async] = "completion" /\ pc'[Async] = "idle"
              /\ notify_q # <<>>

TypeOK ==
    /\ num_outstanding \in Nat
    /\ lock \in Procs \cup {NoOwner}
    /\ outstanding \in [Slots -> Handles \cup {NULL}]
    /\ cm_id \in [Handles -> {"unused", "sent", "completed"}]
    /\ alive \subseteq Endpoints
    /\ \A i \in 1..Len(notify_q) : notify_q[i].ep \in Endpoints

(* ============================== claims ================================ *)

\* C1: in every reachable state, whatever the interleaving of sends on the
\* endpoints of the interface with completions,
\* 0 <= num_outstanding <= max_outstanding.
C1_OutstandingBounded ==
    0 <= num_outstanding /\ num_outstanding <= max_outstanding

\* the table is full, a send was refused and a completion was delivered
C1_Witness ==
    /\ num_outstanding = max_outstanding
    /\ Completions >= 1
    /\ last.op = "am_bcopy" /\ last.status = "NO_RESOURCE"

\* C2: uct_cm_ep_pending_add, with the lock held, answers BUSY and leaves
\* the queue alone when num_outstanding < max_outstanding, and appends the
\* request (owned by the endpoint) and answers OK when
\* num_outstanding = max_outstanding.
C2_PendingAdd ==
    [][\A t \in Threads : PendingAddDone(t) =>
          /\ lock = t
          /\ num_outstanding < max_outstanding =>
                 /\ last'.status = "BUSY"
                 /\ notify_q' = notify_q
          /\ num_outstanding = max_outstanding =>
                 /\ last'.status = "OK"
                 /\ notify_q' = Append(notify_q, [req |-> next_req,
                                                 ep |-> call[t].ep])
       ]_vars

\* a request was enqueued behind another one while the table was full
C2_Witness ==
    /\ last.op = "pending_add" /\ last.status = "OK"
    /\ Len(notify_q) = 2
    /\ num_outstanding = max_outstanding

\* C3: a send that finds num_outstanding >= max_outstanding fails with
\* NO_RESOURCE, releases the lock, invokes no pack callback, creates no
\* handle and leaves num_outstanding, the table and the queue unchanged.
C3_NoResource ==
    [][\A t \in Threads :
          (AmBcopyDone(t) /\ num_outstanding >= max_outstanding) =>
              /\ last'.op = "am_bcopy" /\ last'.status = "NO_RESOURCE"
              /\ ~last'.packed
              /\ last'.id = NULL
              /\ pc'[t] = "idle"
              /\ lock' = NoOwner
              /\ UNCHANGED <<num_outstanding, outstanding, notify_q,
                             cm_id, next_id>>
       ]_vars

\* max_outstanding sends succeeded, no completion was delivered and the
\* next send was refused
C3_Witness ==
    /\ last.op = "am_bcopy" /\ last.status = "NO_RESOURCE"
    /\ SuccessfulSends = max_outstanding
    /\ Completions = 0

\* C4: a send that fails (NO_RESOURCE, NO_MEMORY, IO_ERROR on creation or
\* on submission) has released the lock and holds no staging buffer, has
\* left no handle behind (the one it created is destroyed) and has not
\* changed num_outstanding or the table; and every handle in the table was
\* submitted successfully.
C4_FailureRollback ==
    /\ [][\A t \in Threads : AmBcopyFailed(t) =>
             /\ last'.status \in {"NO_RESOURCE", "NO_MEMORY", "IO_ERROR"}
             /\ lock' = NoOwner
             /\ ~hdr'[t]
             /\ cm_id' = cm_id
             /\ UNCHANGED <<num_outstanding, outstanding>>
          ]_vars
    /\ [](\A i \in Slots : i < num_outstanding =>
             /\ outstanding[i] # NULL
             /\ cm_id[outstanding[i]] = "sent")
    /\ [](\A p \in Procs : hdr[p] => pc[p] = "am_bcopy_sent")

\* a send failed at submission, after it had created a handle, while
\* another handle was outstanding
C4_Witness ==
    /\ last.op = "am_bcopy" /\ last.status = "IO_ERROR"
    /\ last.id # NULL
    /\ num_outstanding = 1

\* C5: num_outstanding is the number of successful sends minus the number
\* of completions, and a send that fails does not change it.
C5_Balance ==
    /\ [](num_outstanding = SuccessfulSends - Completions)
    /\ [][\A t \in Threads : AmBcopyFailed(t) =>
             num_outstanding' = num_outstanding]_vars
    /\ [][\A t \in Threads : AmBcopySent(t) =>
             num_outstanding' = num_outstanding + 1]_vars

\* sends succeeded, one completed, one failed
C5_Witness ==
    /\ Completions >= 1
    /\ num_outstanding >= 1
    /\ last.op = "am_bcopy" /\ last.status = "NO_MEMORY"

\* C6: requests are handed back for retry in the order in which
\* uct_cm_ep_pending_add enqueued them (requests are numbered in that
\* order), each at most once, whatever sends, completions and purges
\* are interleaved.
C6_Fifo ==
    [][HandBack => /\ last_handed' = Head(notify_q).req
                   /\ last_handed' > last_handed]_vars

\* C7: uct_cm_ep_pending_purge on an endpoint removes from the queue the
\* entries owned by that endpoint and no other entry, and leaves the
\* other entries in their order.
C7_Purge ==
    [][\A t \in Threads : PurgeDone(t) =>
          notify_q' = SelectSeq(notify_q, LAMBDA e : e.ep # call[t].ep)
       ]_vars

\* C8: the frame given to ib_cm_send_sidr_req has length
\* sizeof(*hdr) + payload length, and that length does not exceed
\* IB_CM_SIDR_REQ_PRIVATE_DATA_SIZE: no longer frame is ever submitted.
C8_Framing ==
    last.status = "SENT" =>
        /\ last.private_data_len = sizeof_hdr + last.value
        /\ last.private_data_len <= IB_CM_SIDR_REQ_PRIVATE_DATA_SIZE

\* C9: the pending queue never holds a request whose owning endpoint has
\* been destroyed.
C9_NoDeadOwner ==
    \A i \in 1..Len(notify_q) : notify_q[i].ep \in alive

\* C10: a successful send stores the new handle at
\* outstanding[old num_outstanding], advances the counter by one and
\* returns the payload length (the frame length less the header).
C10_SendResult ==
    [][\A t \in Threads : AmBcopySent(t) =>
          /\ last'.op = "am_bcopy" /\ last'.status = "SENT"
          /\ last'.id \in Handles
          /\ cm_id[last'.id] = "unused" /\ cm_id'[last'.id] = "sent"
          /\ outstanding' = [outstanding EXCEPT
                                 ![num_outstanding] = last'.id]
          /\ num_outstanding' = num_outstanding + 1
          /\ last'.value \in PayloadLens
          /\ last'.value = last'.private_data_len - sizeof_hdr
       ]_vars

\* a send of 32 bytes returned 32 and its handle is in the second slot
C10_Witness ==
    /\ last.op = "am_bcopy" /\ last.status = "SENT"
    /\ last.value = 32
    /\ num_outstanding = 2
    /\ outstanding[1] = last.id

\* C11: uct_cm_ep_flush answers complete (OK) iff num_outstanding = 0 and
\* in progress otherwise; once it holds the lock it ends in one step,
\* whatever is outstanding or queued; and no step of it changes
\* num_outstanding, the table or the queue.
C11_Flush ==
    /\ [][\A t \in Threads : FlushDone(t) =>
             /\ last'.op = "flush"
             /\ last'.status \in {"OK", "INPROGRESS"}
             /\ (last'.status = "OK") <=> (num_outstanding = 0)
          ]_vars
    /\ [][\A t \in Threads :
             (pc'[t] # pc[t] /\ "flush" \in {pc[t], pc'[t]}) =>
                 UNCHANGED <<num_outstanding, outstanding, notify_q>>]_vars
    /\ [](\A t \in Threads : pc[t] = "flush" => ENABLED FlushBody(t))

\* a flush answered in progress while the table was full and a request
\* was queued
C11_Witness ==
    /\ last.op = "flush" /\ last.status = "INPROGRESS"
    /\ num_outstanding = max_outstanding
    /\ notify_q # <<>>

\* C12: when a completion frees a slot while the queue is not empty, the
\* request at the head is dequeued and its send retried in the same step,
\* with the lock held, and the retried send is admitted: it does not fail
\* with NO_RESOURCE, and when it succeeds it takes the slot just freed.
C12_RetryAdmitted ==
    [][HandBack =>
          /\ lock = Async /\ lock' = NoOwner
          /\ notify_q' = Tail(notify_q)
          /\ last'.op = "retry"
          /\ last'.status # "NO_RESOURCE"
          /\ last'.status = "SENT" =>
                 /\ num_outstanding' = num_outstanding
                 /\ outstanding'[num_outstanding - 1] = last'.id
       ]_vars

\* a request queued while the table was full was retried by a completion
\* and sent: the table is full again
C12_Witness ==
    /\ last.op = "retry" /\ last.status = "SENT"
    /\ last_handed >= 1
    /\ num_outstanding = max_outstanding

\* C13: a send ends in exactly one of: success, NO_RESOURCE, NO_MEMORY,
\* IO_ERROR (a native failure is never passed on as it is), and after
\* IO_ERROR it has returned without a second attempt: no handle is
\* submitted; uct_cm_ep_pending_add ends in BUSY or OK only.
C13_Statuses ==
    /\ [][\A t \in Threads : AmBcopyDone(t) =>
             /\ last'.op = "am_bcopy"
             /\ last'.status \in {"SENT", "NO_RESOURCE", "NO_MEMORY",
                                  "IO_ERROR"}
             /\ (last'.status = "SENT") <=> AmBcopySent(t)
             /\ last'.status = "IO_ERROR" =>
                    /\ pc'[t] = "idle"
                    /\ UNCHANGED <<cm_id, next_id, num_outstanding,
                                   outstanding>>
          ]_vars
    /\ [][HandBack => last'.status \in {"SENT", "NO_MEMORY", "IO_ERROR"}
          ]_vars
    /\ [][\A t \in Threads : PendingAddDone(t) =>
             last'.status \in {"BUSY", "OK"}]_vars

\* ib_cm_create_id failed in a send made after a completion, while a
\* transaction was outstanding
C13_Witness ==
    /\ last.op = "am_bcopy" /\ last.status = "IO_ERROR"
    /\ last.id = NULL
    /\ Completions >= 1
    /\ num_outstanding = 1

C15_LockHeld ==
    \A t \in Threads :
        pc[t] \in {"am_bcopy", "am_bcopy_admitted", "pending_add", "flush",
                   "pending_purge"} => lock = t

\* C16: the admission test and the insertion of a send are one atomic
\* step with respect to other sends: the counter a send tested is the
\* counter it increments, every successful send takes a slot that is free
\* when it stores its handle, a send that finds no free slot is refused
\* with NO_RESOURCE, and so the sends that succeeded are never more than
\* max_outstanding more than the completions.
C16_AtomicAdmission ==
    /\ [](\A t \in Threads : pc[t] = "am_bcopy_admitted" =>
             num_outstanding < max_outstanding)
    /\ [][\A t \in Threads : AmBcopySent(t) =>
             /\ num_outstanding < max_outstanding
             /\ outstanding[num_outstanding] = NULL
             /\ num_outstanding' = num_outstanding + 1]_vars
    /\ [][\A t \in Threads :
             (AmBcopyFailed(t) /\ num_outstanding >= max_outstanding) =>
                 last'.status = "NO_RESOURCE"]_vars
    /\ [](SuccessfulSends <= max_outstanding + Completions)

\* with no completion delivered, a send was refused while the send of
\* the other thread, which took the last slot, had not returned yet
C16_Witness ==
    /\ last.op = "am_bcopy" /\ last.status = "NO_RESOURCE"
    /\ \E t \in Threads : pc[t] = "am_bcopy_sent"
    /\ num_outstanding = max_outstanding
    /\ Completions = 0

\* C17: every slot below num_outstanding holds a handle that was submitted
\* and is not destroyed, the handles in these slots are pairwise distinct,
\* and the handle a failed submission destroyed is not in the table.
C17_TableHandles ==
    /\ \A i \in Slots : i < num_outstanding =>
           /\ outstanding[i] \in Handles
           /\ cm_id[outstanding[i]] = "sent"
    /\ \A i, j \in Slots : (i < j /\ j < num_outstanding) =>
           outstanding[i] # outstanding[j]
    /\ (last.status = "IO_ERROR" /\ last.id # NULL) =>
           /\ last.id \notin Outstanding(outstanding, num_outstanding)
           /\ cm_id[last.id] # "sent"

\* the submission of a retried send failed and its handle was destroyed
\* while another handle stays in the table
C17_Witness ==
    /\ last.op = "retry" /\ last.status = "IO_ERROR"
    /\ last.id # NULL
    /\ num_outstanding = 1
    /\ cm_id[outstanding[0]] = "sent"

\* C18: a request in the pending queue is always going to be dequeued by
\* a completion: in no reachable state is the queue non-empty while no
\* transaction is outstanding, whose completion would dequeue it.
C18_NoStranded ==
    notify_q # <<>> => num_outstanding > 0

\* C19: a submitted transaction leaves the table only by its completion:
\* the steps of uct_cm_ep_pending_add, uct_cm_ep_pending_purge,
\* uct_cm_ep_flush and of the destruction of an endpoint leave
\* num_outstanding, the table and the handles as they are.
C19_OnlyCompletionRemoves ==
    [][/\ \A t \in Threads :
             (pc'[t] # pc[t] /\ {pc[t], pc'[t]} \cap
                  {"pending_add", "pending_purge", "flush"} # {}) =>
                 UNCHANGED <<num_outstanding, outstanding, cm_id>>
       /\ alive' # alive =>
             UNCHANGED <<num_outstanding, outstanding, cm_id>>
       /\ (Outstanding(outstanding, num_outstanding) \
              Outstanding(outstanding', num_outstanding') # {}) =>
             (pc[Async] = "completion" /\ pc'[Async] = "idle")
      ]_vars

\* an endpoint with a queued request was destroyed while the table was
\* full: the transactions are still outstanding
C19_Witness ==
    /\ last.op = "ep_destroy"
    /\ num_outstanding = max_outstanding
    /\ notify_q # <<>>

\* C20: whenever the send reads its handle, the trace of lines 166-168
\* after the lock is released included, the handle is live: it was not
\* destroyed by its completion.
C20_HandleLive ==
    [][\A t \in Threads : AmBcopyTrace(t) =>
          cm_id[call[t].id] = "sent"]_vars

\* C21: whatever the destination and the trigger configured, and whether
\* opening the destination or parsing the trigger succeeds or fails,
\* ucs_stats_context.flags is 0 whenever the main thread is outside the
\* span from ucs_stats_init() to the return of ucs_stats_cleanup(): after
\* cleanup returns and when the next init starts.  The assertions of lines
\* 406 and 437 hold.
C21_FlagsZero ==
    stats_pc[StatsMain] = "idle" => stats_flags = {}

\* cleanup has returned after an init that set the three stream flags and
\* the timer trigger
C21_Witness ==
    /\ stats_pc[StatsMain] = "idle"
    /\ stats_calls.init >= 1
    /\ stats_cfg.dest.name = "file:/tmp/stats:bin"
    /\ stats_cfg.dest.open_ok
    /\ stats_cfg.trigger.name = "timer:1s"
    /\ stats_flags = {}

\* C22: once ucs_stats_unset_trigger() has found the timer trigger set
\* (line 370), ucs_stats_cleanup() returns: the flag is cleared, the futex
\* is woken, the statistics thread sees the cleared flag, returns and is
\* joined, however the clear and the wake interleave with the thread's
\* read of the flags, its futex wait and its dump, with or without a
\* timeout on the wait.
C22_CleanupTerminates ==
    (stats_pc[StatsMain] = "unset_timer") ~> (stats_pc[StatsMain] = "idle")

\* the thread waits without a timeout, and has returned by the time the
\* main thread joins it
C22_Witness ==
    /\ stats_pc[StatsMain] = "timer_join"
    /\ stats_pc[StatsThread] = "exited"
    /\ stats_cfg.trigger.name = "timer:0"

\* C23: while a thread is inside __ucs_stats_dump, walking the tree from
\* the root, no other thread is inside the critical section of
\* ucs_stats_node_add or ucs_stats_node_remove, which is what the claim
\* concludes from every dump running with the statistics lock held.
C23_DumpExcludesNodeChange ==
    \A p \in StatsProcs, q \in StatsProcs :
        (p # q /\ InDump(p)) => ~InNodeChange(q)

\* C24: a node that ucs_stats_node_free() kept because dump-on-exit was
\* set, and that is in a list of inactive children when
\* ucs_stats_cleanup() walks the tree (line 435), is freed by that walk:
\* no kept node is left behind by cleanup.
C24_CleanupFreesKept ==
    [][CleanStep =>
          \A n \in StatsNodes :
              stats_node[n].st = "inactive" => stats_node'[n].st = "freed"]_vars
====
